---- MODULE Spec2Model ----
(***************************************************************************)
(* A model of the Monad nad.fun bundler and volume bot: the WalletManager, *)
(* the VolumeBot scheduler, the RecoveryManager sweep, the                 *)
(* TransactionBundler and the BotOrchestrator that sequences them.         *)
(*                                                                         *)
(* The program is single-threaded JavaScript: the code between two awaits  *)
(* of a network call runs atomically, and every awaited network call is a  *)
(* point where another task (a timer callback, an HTTP handler) may run.   *)
(* Each action below is one such atomic stretch; the position of a task is *)
(* the name of the call it is awaiting.                                    *)
(***************************************************************************)
EXTENDS Integers, Sequences, FiniteSets, TLC

VARIABLES
  fundingWallets,  \* WalletManager.fundingWallets
  volumeWallets,   \* WalletManager.volumeWallets
  bots,            \* the VolumeBot objects constructed so far
  config,          \* the configuration read from the environment
  rec,             \* the RecoveryManager and its executeRecovery call
  bund,            \* the TransactionBundler call in progress
  state,           \* BotOrchestrator.state (BotState)
  volumeBot,       \* BotOrchestrator.volumeBot (0: undefined, else the bot's id)
  exec,            \* the execute call of the orchestrator
  trig,            \* the triggerRecovery call of the orchestrator
  budget,          \* the calls and timer firings the environment may still make
  heap,            \* which array objects state.fundingWallets and volumeWallets are
  reader           \* the snapshot a caller of getState holds

\* what an action of one component leaves alone
walletVars == <<fundingWallets, volumeWallets>>
orchVars == <<state, volumeBot, exec, trig>>
obsVars == <<heap, reader>>
exceptBots == <<walletVars, config, rec, bund, orchVars, budget, obsVars>>
exceptRec == <<walletVars, config, bots, bund, orchVars, budget, obsVars>>
exceptBund == <<walletVars, config, bots, rec, orchVars, budget, obsVars>>

----------------------------------------------------------------------------
(* Bounds of the model.                                                    *)

\* funding wallets generated in phase 1 (config.bondingCurve.walletCount)
NumFunding == 2
\* volume wallets generated in phase 4 (config.volume.walletCount)
NumVolume == 1
\* VolumeBot objects that may be constructed
MaxBots == 2
\* timers and timer callbacks of one VolumeBot that may be alive at once
MaxLoops == 2
\* timer callbacks (trade attempts) a VolumeBot driven on its own may begin
MaxTrades == 2

\* Math.random() is drawn from the fractions n / RandomSteps, n in Randoms
RandomSteps == 2

BotIds == 1..MaxBots
LoopIds == 1..MaxLoops
Randoms == 0..(RandomSteps - 1)

----------------------------------------------------------------------------
(* WalletManager                                                           *)

\* ethers.HDNodeWallet.fromPhrase(seed, "m/44'/60'/<account>'/0/<i>"): the
\* address is determined by the derivation path.
HDNode(account, i) == <<44, 60, account, 0, i>>

NoWallet == [address |-> <<>>, index |-> -1, type |-> "none"]

generateFundingWallets(count) ==
  [k \in 1..count |->
     [address |-> HDNode(0, k - 1), index |-> k - 1, type |-> "funding"]]

\* generateVolumeWallets, variant that derives in the funding account
generateVolumeWallets_FundingAccount(count, baseIndex) ==
  [k \in 1..count |->
     [address |-> HDNode(0, k - 1), index |-> baseIndex + k - 1, type |-> "volume"]]

generateVolumeWallets(count, baseIndex) ==
  [k \in 1..count |->
     [address |-> HDNode(1, k - 1), index |-> baseIndex + k - 1, type |-> "volume"]]

getVolumeWallets == volumeWallets

getAllWallets == fundingWallets \o volumeWallets

Range(s) == {s[k] : k \in 1..Len(s)}

----------------------------------------------------------------------------
(* VolumeBot                                                               *)
(*                                                                         *)
(* A loop slot l holds one setTimeout timer or the callback it became:     *)
(*   "none"            no timer and no callback                            *)
(*   "timer"           the timer is pending                                *)
(*   "getMonBalance"   the callback runs executeBuy, awaiting the balance  *)
(*   "buyToken"        ... awaiting the buy transaction                    *)
(*   "getTokenBalance" the callback runs executeSell, awaiting the balance *)
(*   "getTokenPrice"   ... awaiting the price                              *)
(*   "sellToken"       ... awaiting the sell transaction                   *)
(* tradeInterval names the slot of the timer created last (0: undefined).  *)
(* last records how the slot's previous trade attempt ended: "threw", or    *)
(* "settled" (an order pushed, or the trade skipped); "none" before any.    *)
(* interval is the delay drawn for the pending timer.  Of the trade in      *)
(* progress, amountMon is the amount drawn, tokenBalance and tokenPrice the *)
(* values read on the sell path, tokensToSell the quantity computed from    *)
(* them and sold the quantity passed to sellToken.  submitted counts the    *)
(* buyToken and sellToken calls of the bot that resolved.                   *)
(* Amounts of MON drawn for trades are counted in units of 1/RandomSteps    *)
(* MON, token prices in these units per token, token quantities in tokens. *)

\* units of a trade amount in one MON
MonUnit == RandomSteps

\* the token balances and token prices the chain may report
TokenBalances == {0, 2}
TokenPrices == {0, 1, 2}

IdleLoop == [st |-> "none", wallet |-> NoWallet, wallets |-> <<>>, last |-> "none",
             interval |-> 0, amountMon |-> 0, tokenBalance |-> 0, tokenPrice |-> 0,
             tokensToSell |-> 0, sold |-> 0]

\* getRandomInterval(): Math.floor(Math.random() * (max - min + 1)) + min
getRandomInterval(r) ==
  ((r * (config.maxTradeIntervalMs - config.minTradeIntervalMs + 1)) \div RandomSteps)
    + config.minTradeIntervalMs

\* getRandomTradeAmount, variant that forgets to add the minimum
getRandomTradeAmount_FromZero(r) ==
  r * (config.tradeAmountMaxMon - config.tradeAmountMinMon)

\* getRandomTradeAmount(): Math.random() * (max - min) + min
getRandomTradeAmount(r) ==
  r * (config.tradeAmountMaxMon - config.tradeAmountMinMon)
    + config.tradeAmountMinMon * MonUnit

\* one random number for each delay, and for each amount, that can be drawn
IntervalDraws ==
  {r \in Randoms : \A q \in 0..(r - 1) : getRandomInterval(q) # getRandomInterval(r)}
AmountDraws ==
  {r \in Randoms : \A q \in 0..(r - 1) : getRandomTradeAmount(q) # getRandomTradeAmount(r)}

\* (amountMonBigInt * BigInt(10**18)) / tokenPrice: bigint division
TokensToSell(amountMon, tokenPrice) == amountMon \div tokenPrice

\* the quantity passed to sellToken, variant without the cap
TokensSold_NoCap(tokensToSell, tokenBalance) == tokensToSell

\* tokensToSell > tokenBalance ? tokenBalance : tokensToSell
TokensSold(tokensToSell, tokenBalance) ==
  IF tokensToSell > tokenBalance THEN tokenBalance ELSE tokensToSell

TradeStates == {"getMonBalance", "buyToken", "getTokenBalance", "getTokenPrice", "sellToken"}

NoBot == [created |-> FALSE, tokenAddress |-> "", isRunning |-> FALSE,
          tradeInterval |-> 0, loops |-> [l \in LoopIds |-> IdleLoop],
          tradeHistory |-> <<>>, submitted |-> 0]

\* new VolumeBot(nadFun, walletManager, tokenAddress)
NewVolumeBot(tokenAddress) ==
  [NoBot EXCEPT !.created = TRUE, !.tokenAddress = tokenAddress]

FreeLoops(bot) == {l \in LoopIds : bot.loops[l].st = "none"}

\* scheduleNextTrade(wallets), the new timer taking slot l and r being the
\* random number drawn for its delay
scheduleNextTrade(bot, l, wallets, r) ==
  IF ~bot.isRunning
  THEN [bot EXCEPT !.loops[l] = IdleLoop]
  ELSE [bot EXCEPT !.loops[l] = [IdleLoop EXCEPT !.st = "timer", !.wallets = wallets,
                                                 !.last = bot.loops[l].last,
                                                 !.interval = getRandomInterval(r)],
                   !.tradeInterval = l]

\* the timer callback after its trade, variant whose catch is missing: a
\* trade that throws ends the callback before it reschedules
AfterTrade_NoCatch(bot, l, threw, r) ==
  IF threw THEN [bot EXCEPT !.loops[l] = IdleLoop]
  ELSE scheduleNextTrade([bot EXCEPT !.loops[l].last = "settled"], l, bot.loops[l].wallets, r)

\* the timer callback once executeRandomTrade has settled: an error is caught
\* and logged, then the next trade is scheduled
AfterTrade(bot, l, threw, r) ==
  scheduleNextTrade([bot EXCEPT !.loops[l].last = IF threw THEN "threw" ELSE "settled"],
                    l, bot.loops[l].wallets, r)

\* the awaited buyToken or sellToken call resolved
Submitted(bot) == [bot EXCEPT !.submitted = @ + 1]

\* tradeHistory.push(order), variant that records the buys only
PushOrder_BuysOnly(bot, l, type) ==
  IF type = "sell" THEN bot
  ELSE [bot EXCEPT !.tradeHistory =
          Append(@, [wallet |-> bot.loops[l].wallet, type |-> type,
                     amountMon |-> bot.loops[l].amountMon,
                     tokenAddress |-> bot.tokenAddress])]

\* tradeHistory.push(order)
PushOrder(bot, l, type) ==
  [bot EXCEPT !.tradeHistory =
     Append(@, [wallet |-> bot.loops[l].wallet, type |-> type,
                amountMon |-> bot.loops[l].amountMon,
                tokenAddress |-> bot.tokenAddress])]

RECURSIVE SumAmounts(_)
SumAmounts(orders) ==
  IF orders = <<>> THEN 0 ELSE Head(orders).amountMon + SumAmounts(Tail(orders))

\* getTotalVolume(): the sum of amountMon over the trade history
getTotalVolume(bot) == SumAmounts(bot.tradeHistory)

\* VolumeBot.stop
StopBot(bot) ==
  LET h == bot.tradeInterval IN
  IF h # 0 /\ bot.loops[h].st = "timer"
  THEN [bot EXCEPT !.isRunning = FALSE, !.loops[h] = IdleLoop]
  ELSE [bot EXCEPT !.isRunning = FALSE]

\* VolumeBot.start, variant that trades from every wallet of the manager
StartBot_AllWallets(bot, l, r) ==
  IF bot.isRunning THEN bot
  ELSE IF Len(getVolumeWallets) = 0 THEN bot
  ELSE scheduleNextTrade([bot EXCEPT !.isRunning = TRUE], l, getAllWallets, r)

\* VolumeBot.start: returns when already running, throws without volume
\* wallets, otherwise sets isRunning and schedules the first trade
StartBot(bot, l, r) ==
  IF bot.isRunning THEN bot
  ELSE IF Len(getVolumeWallets) = 0 THEN bot
  ELSE scheduleNextTrade([bot EXCEPT !.isRunning = TRUE], l, getVolumeWallets, r)

\* the slot a new timer of start takes: the lowest free one
StartSlot(bot) == CHOOSE l \in FreeLoops(bot) : \A m \in FreeLoops(bot) : l <= m

BotStart(b) ==
  /\ bots[b].created
  /\ FreeLoops(bots[b]) # {}
  /\ \E r \in IntervalDraws : bots' = [bots EXCEPT ![b] = StartBot(@, StartSlot(@), r)]
  /\ UNCHANGED exceptBots

BotStop(b) ==
  /\ bots[b].created
  /\ bots' = [bots EXCEPT ![b] = StopBot(@)]
  /\ UNCHANGED exceptBots

\* the timer of slot l fires: executeRandomTrade picks a wallet, a side and
\* an amount and begins executeBuy or executeSell
TimerFires(b, l) ==
  /\ bots[b].loops[l].st = "timer"
  /\ budget.trades > 0
  /\ budget' = [budget EXCEPT !.trades = @ - 1]
  /\ \E w \in Range(bots[b].loops[l].wallets), side \in {"getMonBalance", "getTokenBalance"},
        r \in AmountDraws :
       bots' = [bots EXCEPT ![b].loops[l].st = side,
                            ![b].loops[l].wallet = w,
                            ![b].loops[l].interval = 0,
                            ![b].loops[l].amountMon = getRandomTradeAmount(r)]
  /\ UNCHANGED <<walletVars, config, rec, bund, orchVars, obsVars>>

\* executeBuy: getMonBalance settles
BuyBalanceRead(b, l) ==
  /\ bots[b].loops[l].st = "getMonBalance"
  /\ \E balance \in {"throws", "insufficient", "ok"}, r \in IntervalDraws :
       bots' = [bots EXCEPT ![b] =
                  IF balance = "ok" THEN [@ EXCEPT !.loops[l].st = "buyToken"]
                  ELSE AfterTrade(@, l, balance = "throws", r)]
  /\ UNCHANGED exceptBots

\* executeBuy: buyToken settles
BuySettles(b, l) ==
  /\ bots[b].loops[l].st = "buyToken"
  /\ \E ok \in BOOLEAN, r \in IntervalDraws :
       bots' = [bots EXCEPT ![b] =
                  IF ok THEN AfterTrade(PushOrder(Submitted(@), l, "buy"), l, FALSE, r)
                  ELSE AfterTrade(@, l, TRUE, r)]
  /\ UNCHANGED exceptBots

\* executeSell: getTokenBalance settles
SellBalanceRead(b, l) ==
  /\ bots[b].loops[l].st = "getTokenBalance"
  /\ \E r \in IntervalDraws :
       \/ bots' = [bots EXCEPT ![b] = AfterTrade(@, l, TRUE, r)]
       \/ \E tokenBalance \in TokenBalances :
            bots' = [bots EXCEPT ![b] =
                       IF tokenBalance = 0 THEN AfterTrade(@, l, FALSE, r)
                       ELSE [@ EXCEPT !.loops[l].st = "getTokenPrice",
                                      !.loops[l].tokenBalance = tokenBalance]]
  /\ UNCHANGED exceptBots

\* executeSell: getTokenPrice settles (a zero price makes the division
\* throw); the quantity to sell is computed and sellToken is called
SellPriceRead(b, l) ==
  /\ bots[b].loops[l].st = "getTokenPrice"
  /\ \E r \in IntervalDraws :
       \/ bots' = [bots EXCEPT ![b] = AfterTrade(@, l, TRUE, r)]
       \/ \E tokenPrice \in TokenPrices :
            bots' = [bots EXCEPT ![b] =
                       IF tokenPrice = 0 THEN AfterTrade(@, l, TRUE, r)
                       ELSE LET tokensToSell ==
                                  TokensToSell(bots[b].loops[l].amountMon, tokenPrice)
                                tokenBalance == bots[b].loops[l].tokenBalance
                            IN [@ EXCEPT !.loops[l].st = "sellToken",
                                         !.loops[l].tokenPrice = tokenPrice,
                                         !.loops[l].tokensToSell = tokensToSell,
                                         !.loops[l].sold =
                                            TokensSold(tokensToSell, tokenBalance)]]
  /\ UNCHANGED exceptBots

\* executeSell: sellToken settles
SellSettles(b, l) ==
  /\ bots[b].loops[l].st = "sellToken"
  /\ \E ok \in BOOLEAN, r \in IntervalDraws :
       bots' = [bots EXCEPT ![b] =
                  IF ok THEN AfterTrade(PushOrder(Submitted(@), l, "sell"), l, FALSE, r)
                  ELSE AfterTrade(@, l, TRUE, r)]
  /\ UNCHANGED exceptBots

BotStep(b) ==
  \E l \in LoopIds :
    \/ TimerFires(b, l)
    \/ BuyBalanceRead(b, l)
    \/ BuySettles(b, l)
    \/ SellBalanceRead(b, l)
    \/ SellPriceRead(b, l)
    \/ SellSettles(b, l)

\* what the claims read off a VolumeBot
PendingTimers(bot) == {l \in LoopIds : bot.loops[l].st = "timer"}
TradesInProgress(bot) == {l \in LoopIds : bot.loops[l].st \in TradeStates}

----------------------------------------------------------------------------
(* RecoveryManager                                                         *)
(*                                                                         *)
(* Amounts of MON are counted in units of 0.0005 MON.  rec.pc is the call  *)
(* executeRecovery awaits: "idle" (not called), "getTokenBalance",         *)
(* "sellToken", "getMonBalance", "transferMon", "delay" (the pause between *)
(* two wallets), "done" (returned).  Of the wallet being swept, sellThrew   *)
(* records that its sell threw and transferred the MON its transfer moved; *)
(* threw counts the wallets whose recoverFromWallet threw; monBalance is   *)
(* the MON balance read for it (-1: not read).  totalTransferred is the MON *)
(* the transferMon calls of the sweep that resolved have moved to the       *)
(* recovery address.                                                       *)

\* ethers.parseEther('0.001'), in units of 0.0005 MON
GasReserve == 2

\* the MON balances a wallet may be read to hold, in units of 0.0005 MON
MonBalances == {0, 1, 2, 3}

\* NadFunContract.sellToken returns the MON received: BigInt(0), never parsed
\* from the receipt
SellTokenReturn == 0

IdleRec == [pc |-> "idle", tokenAddress |-> "", allWallets |-> <<>>, i |-> 0,
            totalMonRecovered |-> 0, walletsProcessed |-> 0, threw |-> 0,
            totalRecovered |-> 0, transferAmount |-> 0, transferred |-> 0,
            sellThrew |-> FALSE, visited |-> <<>>, monBalance |-> -1,
            totalTransferred |-> 0]

\* recoverFromWallet(allWallets[i]) begins: totalRecovered = 0, then the
\* token balance is requested
BeginWallet(r, i) ==
  [r EXCEPT !.pc = "getTokenBalance", !.i = i, !.totalRecovered = 0,
            !.transferAmount = 0, !.transferred = 0, !.sellThrew = FALSE,
            !.monBalance = -1,
            !.visited = Append(@, r.allWallets[i])]

\* the for loop of executeRecovery, variant that leaves the loop at the first
\* wallet that throws
NextWallet_AbortOnThrow(r, threw) ==
  IF ~threw /\ r.i < Len(r.allWallets) THEN BeginWallet(r, r.i + 1)
  ELSE [r EXCEPT !.pc = "done"]

\* the for loop of executeRecovery moves to the next wallet, or returns
NextWallet(r, threw) ==
  IF r.i < Len(r.allWallets) THEN BeginWallet(r, r.i + 1)
  ELSE [r EXCEPT !.pc = "done"]

\* recoverFromWallet threw: the catch of executeRecovery logs it, nothing is
\* counted and no delay is taken (rec.threw counts these wallets)
WalletThrew(r) ==
  NextWallet([r EXCEPT !.threw = @ + 1, !.totalRecovered = 0], TRUE)

\* recoverFromWallet returns, variant in which a wallet whose sell threw is
\* dropped like one that threw
WalletReturned_DropFailedSell(r) ==
  IF r.sellThrew
  THEN [r EXCEPT !.pc = "delay"]
  ELSE [r EXCEPT !.pc = "delay",
                 !.totalMonRecovered = @ + r.totalRecovered,
                 !.walletsProcessed = @ + 1]

\* recoverFromWallet returns totalRecovered: it is added to the total, the
\* wallet is counted, and the delay before the next wallet starts
WalletReturned(r) ==
  [r EXCEPT !.pc = "delay",
            !.totalMonRecovered = @ + r.totalRecovered,
            !.walletsProcessed = @ + 1]

\* the transfer amount, variant without the comparison with the reserve
TransferAmount_NoClamp(monBalance) == monBalance - GasReserve

\* monBalance > gasReserve ? monBalance - gasReserve : BigInt(0)
TransferAmount(monBalance) ==
  IF monBalance > GasReserve THEN monBalance - GasReserve ELSE 0

\* new RecoveryManager(...).executeRecovery() up to its first await
StartRecovery(tokenAddress) ==
  LET r == [IdleRec EXCEPT !.tokenAddress = tokenAddress, !.allWallets = getAllWallets]
  IN IF Len(r.allWallets) = 0 THEN [r EXCEPT !.pc = "done"] ELSE BeginWallet(r, 1)

\* recoverFromWallet: getTokenBalance settles
RecTokenBalanceRead ==
  /\ rec.pc = "getTokenBalance"
  /\ \E b \in {"throws", "zero", "positive"} :
       rec' = CASE b = "throws" -> WalletThrew(rec)
                [] b = "zero" -> [rec EXCEPT !.pc = "getMonBalance"]
                [] b = "positive" -> [rec EXCEPT !.pc = "sellToken"]
  /\ UNCHANGED exceptRec

\* recoverFromWallet: sellToken settles; a throw is caught and logged
RecSellSettles ==
  /\ rec.pc = "sellToken"
  /\ \E ok \in BOOLEAN :
       rec' = IF ok
              THEN [rec EXCEPT !.pc = "getMonBalance",
                               !.totalRecovered = @ + SellTokenReturn]
              ELSE [rec EXCEPT !.pc = "getMonBalance", !.sellThrew = TRUE]
  /\ UNCHANGED exceptRec

\* recoverFromWallet: getMonBalance settles
RecMonBalanceRead ==
  /\ rec.pc = "getMonBalance"
  /\ \/ rec' = WalletThrew(rec)
     \/ \E monBalance \in MonBalances :
          LET r == [rec EXCEPT !.monBalance = monBalance,
                               !.transferAmount = IF monBalance > 0
                                                  THEN TransferAmount(monBalance) ELSE 0]
          IN rec' = IF monBalance > 0 /\ r.transferAmount > 0
                    THEN [r EXCEPT !.pc = "transferMon"]
                    ELSE WalletReturned(r)
  /\ UNCHANGED exceptRec

\* the catch around transferMon, variant that counts the amount it tried to
\* move
TransferCaught_Counted(r) ==
  [r EXCEPT !.totalRecovered = @ + r.transferAmount]

\* the catch around transferMon: the error is logged, nothing is counted
TransferCaught(r) ==
  r

\* recoverFromWallet: transferMon settles; a throw is caught and logged
RecTransferSettles ==
  /\ rec.pc = "transferMon"
  /\ \E ok \in BOOLEAN :
       rec' = IF ok
              THEN WalletReturned([rec EXCEPT !.totalRecovered = @ + rec.transferAmount,
                                              !.transferred = rec.transferAmount,
                                              !.totalTransferred = @ + rec.transferAmount])
              ELSE WalletReturned(TransferCaught(rec))
  /\ UNCHANGED exceptRec

\* the one-second delay after a processed wallet elapses
RecDelayElapses ==
  /\ rec.pc = "delay"
  /\ rec' = NextWallet(rec, FALSE)
  /\ UNCHANGED exceptRec

RecStep ==
  \/ RecTokenBalanceRead
  \/ RecSellSettles
  \/ RecMonBalanceRead
  \/ RecTransferSettles
  \/ RecDelayElapses

\* what the claims read off the sweep
SweepInProgress == rec.pc \notin {"idle", "done"}

----------------------------------------------------------------------------
(* TransactionBundler                                                      *)
(*                                                                         *)
(* bund.pc is the call the bundling method awaits: "idle" (no call),       *)
(* "populate" (populateTransaction), "sendTransaction", "wait" (the        *)
(* confirmation of the transaction sent), "getTransactionReceipt", "delay" *)
(* (the 100 ms pause between two buys), "returned", "threw".               *)
(* bund.sent lists the transactions handed to the chain, in order, and     *)
(* bund.confirmed counts those confirmed; bund.failedAt is the index of    *)
(* the operation whose submission or confirmation threw (0: none).         *)
(* Amounts of MON passed to the bundler are in thousandths of a MON.       *)

IdleBund == [pc |-> "idle", op |-> "none", mode |-> "none", wallets |-> <<>>,
             tokenAddress |-> "undefined", amounts |-> <<>>, txs |-> <<>>, i |-> 0,
             transactions |-> <<>>, signatures |-> <<>>,
             sent |-> <<>>, confirmed |-> 0, failedAt |-> 0]

Tx(kind, wallet, token, value) ==
  [kind |-> kind, wallet |-> wallet, token |-> token, value |-> value]
Hash(tx, signer) == [form |-> "hash", tx |-> tx, signer |-> signer]
Signed(tx, signer) == [form |-> "signed", tx |-> tx, signer |-> signer]

\* the token addresses a caller may pass to bundleMultipleBuys
TokenAddresses == {"", "0xT"}

\* the buy amounts a caller may pass, in thousandths of a MON
BuyAmounts == {1000, 2500}

\* extractTokenAddress(receipt): the loop over the logs is empty and the
\* method returns null for every receipt
extractTokenAddress(receipt) == "null"

\* bundleTokenCreationAndBuy(fundingWallet, tokenConfig, buyAmountMon) up to
\* its first await
bundleTokenCreationAndBuy(fundingWallet, buyAmountMon) ==
  [IdleBund EXCEPT !.pc = "populate", !.op = "createAndBuy",
                   !.wallets = <<fundingWallet>>, !.amounts = <<buyAmountMon>>]

\* bundleMultipleBuys(wallets, tokenAddress, amounts) up to its first await
bundleMultipleBuys(wallets, tokenAddress, amounts) ==
  [IdleBund EXCEPT !.pc = "populate", !.op = "multipleBuys",
                   !.wallets = wallets, !.tokenAddress = tokenAddress,
                   !.amounts = amounts]

\* the wallet whose key signs transaction i: in submitToBundler the one
\* signer passed in, otherwise the wallet the transaction was built for
Signer(b, i) == IF b.mode = "bundler" THEN b.wallets[1] ELSE b.txs[i].wallet

\* the submission of the next transaction, variant that submits the
\* transaction before it once more
SubmitNext_Resubmit(b, i) ==
  LET j == IF i > 1 THEN i - 1 ELSE i IN
  IF b.mode = "bundler"
  THEN [b EXCEPT !.pc = "sendTransaction", !.i = j,
                 !.transactions = Append(@, Signed(b.txs[j], b.wallets[1]))]
  ELSE [b EXCEPT !.pc = "sendTransaction", !.i = j]

\* the submission of transaction i begins (submitToBundler first signs it
\* and keeps the signed transaction)
SubmitNext(b, i) ==
  IF b.mode = "bundler"
  THEN [b EXCEPT !.pc = "sendTransaction", !.i = i,
                 !.transactions = Append(@, Signed(b.txs[i], b.wallets[1]))]
  ELSE [b EXCEPT !.pc = "sendTransaction", !.i = i]

\* an awaited call of operation i threw: the method rejects (the catch of
\* bundleTokenCreationAndBuy logs and rethrows; bundleMultipleBuys has none)
BundThrows(b) == [b EXCEPT !.pc = "threw", !.failedAt = b.i]

\* populateTransaction settles for the transactions to build
BundPopulated ==
  /\ bund.pc = "populate"
  /\ \/ bund' = [bund EXCEPT !.pc = "threw"]
     \/ LET txs == IF bund.op = "createAndBuy"
                   THEN <<Tx("createToken", bund.wallets[1], "undefined", 0)>>
                   ELSE [k \in 1..Len(bund.wallets) |->
                           Tx("buyToken", bund.wallets[k], bund.tokenAddress,
                              bund.amounts[k])]
            mode == IF config.bundlerRpcUrl # "" THEN "bundler" ELSE "sequential"
            b == [bund EXCEPT !.txs = txs, !.mode = mode]
        IN bund' = IF Len(txs) = 0
                   THEN [b EXCEPT !.pc = IF mode = "bundler" THEN "threw" ELSE "returned"]
                   ELSE SubmitNext(b, 1)
  /\ UNCHANGED exceptBund

\* signer.sendTransaction(tx) settles
BundSendSettles ==
  /\ bund.pc = "sendTransaction"
  /\ \/ bund' = BundThrows(bund)
     \/ bund' = [bund EXCEPT !.pc = "wait",
                             !.sent = Append(@, [tx |-> bund.txs[bund.i],
                                                 signer |-> Signer(bund, bund.i)])]
  /\ UNCHANGED exceptBund

\* txResponse.wait() settles
BundWaitSettles ==
  /\ bund.pc = "wait"
  /\ \/ bund' = BundThrows(bund)
     \/ LET i == bund.i
            h == Hash(bund.txs[i], Signer(bund, i))
            b == [bund EXCEPT !.confirmed = @ + 1]
        IN bund' =
             CASE b.mode = "bundler" ->
                    LET c == [b EXCEPT !.signatures = Append(@, h)]
                    IN IF i < Len(b.txs) THEN SubmitNext(c, i + 1)
                       ELSE [c EXCEPT !.pc = "returned"]
               [] b.mode = "sequential" /\ b.op = "multipleBuys" ->
                    [b EXCEPT !.pc = "delay",
                              !.transactions = Append(@, h),
                              !.signatures = Append(@, h)]
               [] b.mode = "sequential" /\ b.op = "createAndBuy" ->
                    IF i = 1 THEN [b EXCEPT !.pc = "getTransactionReceipt"]
                    ELSE LET h1 == Hash(b.txs[1], Signer(b, 1))
                         IN [b EXCEPT !.pc = "returned",
                                      !.transactions = @ \o <<h1, h>>,
                                      !.signatures = @ \o <<h1, h>>]
  /\ UNCHANGED exceptBund

\* provider.getTransactionReceipt settles; the first buy is built and sent
\* only when a token address was extracted from the receipt
BundReceiptSettles ==
  /\ bund.pc = "getTransactionReceipt"
  /\ \/ bund' = BundThrows(bund)
     \/ \E receipt \in {"null", "receipt"} :
          LET tokenAddress == extractTokenAddress(receipt) IN
          bund' = IF tokenAddress # "null"
                  THEN SubmitNext([bund EXCEPT !.txs = Append(@,
                                     Tx("buyToken", bund.wallets[1], tokenAddress,
                                        bund.amounts[1]))], 2)
                  ELSE [bund EXCEPT !.pc = "returned"]
  /\ UNCHANGED exceptBund

\* the 100 ms delay after a confirmed buy elapses
BundDelayElapses ==
  /\ bund.pc = "delay"
  /\ bund' = IF bund.i < Len(bund.txs) THEN SubmitNext(bund, bund.i + 1)
             ELSE [bund EXCEPT !.pc = "returned"]
  /\ UNCHANGED exceptBund

BundStep ==
  \/ BundPopulated
  \/ BundSendSettles
  \/ BundWaitSettles
  \/ BundReceiptSettles
  \/ BundDelayElapses

----------------------------------------------------------------------------
(* BotOrchestrator                                                         *)
(*                                                                         *)
(* exec.pc is the call execute awaits: "idle" (not called),                *)
(* "generateFundingWallets", "bundleTokenCreationAndBuy",                  *)
(* "bundleMultipleBuys", "getBondingCurveStatus", "pollDelay",             *)
(* "generateVolumeWallets", "transferMon", "fundDelay", and "done"         *)
(* (returned) or "failed" (rejected).  The model lets one execute call and *)
(* one triggerRecovery call be in progress at a time.  trig.pc is "idle",   *)
(* "executeRecovery" (the call awaits the sweep), "returned" or "threw";   *)
(* trig.calledIn is the phase the last call found, trig.schedulerRunning   *)
(* whether it found the scheduler running.  exec.polls counts the status   *)
(* polls of the call, exec.completeAt is the poll that observed            *)
(* isComplete (0: none), exec.elapsed the time waited in poll intervals,   *)
(* exec.error the error the call rejected with, exec.confirmedMon the MON  *)
(* (in thousandths) of the buys of the call that the chain confirmed.      *)
(* exec.fundingWallets is the local list of fundVolumeWallets, the funding *)
(* wallets it draws on, and exec.transfers lists the transferMon calls it  *)
(* made, each with the address it took the MON from and the address it     *)
(* sent it to.                                                             *)

\* calls of execute and of triggerRecovery the environment may make
MaxExecCalls == 2
MaxRecoveryCalls == 2
\* timer callbacks (trade attempts) that may begin in a run of the orchestrator
MaxOrchTrades == 1

\* config.bondingCurve.targetMon (BONDING_CURVE_TARGET_MON, default)
TargetMon == 1296000

\* fundVolumeWallets: the funding wallets used are slice(0, Math.min(10, n))
FundingSubset == 10

\* phase3_WaitForBondingCurve: the poll interval is the unit of time (30 s);
\* the maximum wait, 120 intervals in the code, is scaled down
PollInterval == 1
MaxWaitTime == 4

\* while (Date.now() - startTime < maxWaitTime), variant that also polls at
\* the deadline itself
PollAgain_Inclusive(elapsed) == elapsed <= MaxWaitTime

\* while (Date.now() - startTime < maxWaitTime)
PollAgain(elapsed) == elapsed < MaxWaitTime

\* The token address the orchestrator takes from the creation transaction.
\* The extraction is not written (the constant '' stands in for it): '' is
\* what the code as it stands yields, "0xT" what a resolved address would be.
CreatedTokenAddresses == {"", "0xT"}

\* Amounts of MON in phase 2 are counted in thousandths of a MON; a quotient
\* that is no whole number of thousandths is cut to the thousandth below.
\* targetMon / fundingWallets.length
MonPerWallet(targetMon, n) == (targetMon * 1000) \div n

\* the MON left for the remaining wallets, variant that forgets the first
\* wallet's contribution
RemainingAmount_WholeTarget(targetMon, monPerWallet) == targetMon * 1000

\* targetMon - monPerWallet
RemainingAmount(targetMon, monPerWallet) == targetMon * 1000 - monPerWallet

\* remainingAmount / remainingWallets.length (Infinity without remaining
\* wallets)
AmountPerRemainingWallet(remainingAmount, m) ==
  IF m = 0 THEN "Infinity" ELSE remainingAmount \div m

Min(a, b) == IF a < b THEN a ELSE b

\* !tokenAddress
Falsy(a) == a \in {"undefined", ""}

InitialState ==
  [phase |-> "idle", tokenAddress |-> "undefined", fundingWallets |-> <<>>,
   volumeWallets |-> <<>>, totalMonDeposited |-> 0,
   bondingCurveComplete |-> FALSE, volumeGenerated |-> 0]

IdleExec == [pc |-> "idle", i |-> 0, elapsed |-> 0, polls |-> 0, completeAt |-> 0,
             error |-> "none", monPerWallet |-> 0, amountPerRemainingWallet |-> 0,
             confirmedMon |-> 0, fundingWallets |-> <<>>, transfers |-> <<>>]

\* the MON of the buys among the first n transactions a bundling call sent
RECURSIVE BuyMon(_, _)
BuyMon(sent, n) ==
  IF n = 0 THEN 0
  ELSE BuyMon(sent, n - 1)
         + (IF sent[n].tx.kind = "buyToken" THEN sent[n].tx.value ELSE 0)

\* the MON of the buys of bundling call b that were confirmed
ConfirmedBuyMon(b) == BuyMon(b.sent, b.confirmed)
IdleTrig == [pc |-> "idle", calledIn |-> "none", schedulerRunning |-> FALSE]

\* The wallet lists of BotState are array objects.  heap.funding names the
\* array state.fundingWallets refers to: 0 is the literal [] of the
\* constructor, n the array built and returned by the n-th
\* generateFundingWallets call of execute, which is the WalletManager's own
\* fundingWallets array as well; heap.volume likewise.  No code changes an
\* array after it was assigned to the state.
InitialHeap == [funding |-> 0, volume |-> 0]

\* reader.snapshot is the object the last getState call returned, as it is
\* now; reader.funding and reader.volume name the arrays its list fields
\* refer to
NoReader == [held |-> FALSE, snapshot |-> InitialState, funding |-> 0, volume |-> 0]

\* an awaited call rejected: execute logs the error and rethrows it
ExecFails ==
  exec' = [exec EXCEPT !.pc = "failed", !.error = "rejected",
                       !.confirmedMon = @ + ConfirmedBuyMon(bund)]

\* the funding wallets fundVolumeWallets draws on, variant that takes them all
FundingSubsetOf_All(wallets) == wallets

\* this.state.fundingWallets.slice(0, Math.min(10, this.state.fundingWallets.length))
FundingSubsetOf(wallets) == SubSeq(wallets, 1, Min(FundingSubset, Len(wallets)))

\* fundingWallets[i % fundingWallets.length], the funding wallet that funds
\* volume wallet i (1-based)
FundingSource(subset, i) == subset[((i - 1) % Len(subset)) + 1]

\* transferMon(fundingWallet, volumeWallet.address, amount) for volume wallet
\* i of wallets is called
TransferTo(e, wallets, i) ==
  [e EXCEPT !.pc = "transferMon", !.i = i,
            !.transfers = Append(@, [from |-> FundingSource(e.fundingWallets, i).address,
                                     to |-> wallets[i].address])]

UnusedBots == {b \in BotIds : ~bots[b].created}
NextBotId == CHOOSE b \in UnusedBots : \A c \in UnusedBots : b <= c

\* execute(tokenConfig) is called: phase 1 sets the phase and asks the
\* WalletManager for the funding wallets
Execute ==
  /\ exec.pc \in {"idle", "done", "failed"}
  /\ budget.execute > 0
  /\ budget' = [budget EXCEPT !.execute = @ - 1]
  /\ exec' = [IdleExec EXCEPT !.pc = "generateFundingWallets"]
  /\ state' = [state EXCEPT !.phase = "funding"]
  /\ UNCHANGED <<walletVars, config, bots, rec, bund, volumeBot, trig, obsVars>>

\* generateFundingWallets settles; phase 2 begins: the phase is set and the
\* first wallet's creation bundle is requested
ExecFundingGenerated ==
  /\ exec.pc = "generateFundingWallets"
  /\ \/ /\ ExecFails
        /\ UNCHANGED <<walletVars, state, bund, heap>>
     \/ LET wallets == generateFundingWallets(config.walletCount) IN
        /\ fundingWallets' = wallets
        /\ heap' = [heap EXCEPT !.funding = @ + 1]
        /\ state' = [state EXCEPT !.fundingWallets = wallets, !.phase = "bonding"]
        /\ LET monPerWallet == MonPerWallet(config.targetMon, Len(wallets)) IN
           /\ bund' = bundleTokenCreationAndBuy(wallets[1], monPerWallet)
           /\ exec' = [exec EXCEPT !.pc = "bundleTokenCreationAndBuy",
                                    !.monPerWallet = monPerWallet]
        /\ UNCHANGED volumeWallets
  /\ UNCHANGED <<config, bots, rec, volumeBot, trig, budget, reader>>

\* a bundling call rejected: execute logs the error and rejects
ExecBundleThrew ==
  /\ exec.pc \in {"bundleTokenCreationAndBuy", "bundleMultipleBuys"}
  /\ bund.pc = "threw"
  /\ ExecFails
  /\ bund' = IdleBund
  /\ UNCHANGED <<walletVars, config, bots, rec, state, volumeBot, trig, budget, obsVars>>

\* bundleTokenCreationAndBuy returned: the token address is recorded and the
\* buys of the remaining wallets are requested
ExecCreateReturned ==
  /\ exec.pc = "bundleTokenCreationAndBuy"
  /\ bund.pc = "returned"
  /\ LET remainingWallets == SubSeq(state.fundingWallets, 2, Len(state.fundingWallets))
         remainingAmount == RemainingAmount(config.targetMon, exec.monPerWallet)
         amountPerRemainingWallet ==
           AmountPerRemainingWallet(remainingAmount, Len(remainingWallets))
     IN /\ \E tokenAddress \in CreatedTokenAddresses :
             /\ state' = [state EXCEPT !.tokenAddress = tokenAddress]
             /\ bund' = bundleMultipleBuys(remainingWallets, tokenAddress,
                           [k \in 1..Len(remainingWallets) |-> amountPerRemainingWallet])
        /\ exec' = [exec EXCEPT !.pc = "bundleMultipleBuys",
                                 !.amountPerRemainingWallet = amountPerRemainingWallet,
                                 !.confirmedMon = @ + ConfirmedBuyMon(bund)]
  /\ UNCHANGED <<walletVars, config, bots, rec, volumeBot, trig, budget, obsVars>>

\* bundleMultipleBuys returned: the deposit is recorded; phase 3 throws
\* without a token address, otherwise polls the bonding curve
ExecBuysReturned ==
  /\ exec.pc = "bundleMultipleBuys"
  /\ bund.pc = "returned"
  /\ bund' = IdleBund
  /\ state' = [state EXCEPT !.totalMonDeposited = config.targetMon]
  /\ LET e == [exec EXCEPT !.confirmedMon = @ + ConfirmedBuyMon(bund)] IN
     exec' = IF Falsy(state.tokenAddress)
             THEN [e EXCEPT !.pc = "failed", !.error = "Token address not set"]
             ELSE IF PollAgain(0)
                  THEN [e EXCEPT !.pc = "getBondingCurveStatus", !.elapsed = 0,
                                 !.polls = 1]
                  ELSE [e EXCEPT !.pc = "failed", !.error = "deadline"]
  /\ UNCHANGED <<walletVars, config, bots, rec, volumeBot, trig, budget, obsVars>>

\* the state after a poll, variant that leaves the completion flag unset
StateAfterPoll_FlagNotSet(st, isComplete) ==
  IF isComplete THEN [st EXCEPT !.phase = "volume"] ELSE st

\* the state after a poll: a complete curve sets bondingCurveComplete, phase 3
\* returns and phase 4 sets the phase
StateAfterPoll(st, isComplete) ==
  IF isComplete
  THEN [st EXCEPT !.bondingCurveComplete = TRUE, !.phase = "volume"]
  ELSE st

\* the execute call after a poll, variant whose loop is not left when the
\* curve is complete
ExecAfterPoll_NoReturn(e, isComplete) ==
  IF isComplete
  THEN [e EXCEPT !.pc = "pollDelay", !.completeAt = e.polls]
  ELSE [e EXCEPT !.pc = "pollDelay"]

\* the execute call after a poll: a complete curve ends the loop and phase 4
\* asks for the volume wallets; otherwise the poll interval is waited
ExecAfterPoll(e, isComplete) ==
  IF isComplete
  THEN [e EXCEPT !.pc = "generateVolumeWallets", !.completeAt = e.polls]
  ELSE [e EXCEPT !.pc = "pollDelay"]

\* getBondingCurveStatus settles: a throw rejects execute; otherwise the
\* status is looked at
ExecPollSettles ==
  /\ exec.pc = "getBondingCurveStatus"
  /\ \/ /\ ExecFails
        /\ UNCHANGED state
     \/ \E isComplete \in BOOLEAN :
          /\ state' = StateAfterPoll(state, isComplete)
          /\ exec' = ExecAfterPoll(exec, isComplete)
  /\ UNCHANGED <<walletVars, config, bots, rec, bund, volumeBot, trig, budget, obsVars>>

\* the poll interval elapses: the loop polls again while the elapsed time is
\* below the maximum wait, and throws otherwise
ExecPollDelayElapses ==
  /\ exec.pc = "pollDelay"
  /\ LET elapsed == exec.elapsed + PollInterval IN
     exec' = IF PollAgain(elapsed)
             THEN [exec EXCEPT !.pc = "getBondingCurveStatus", !.elapsed = elapsed,
                               !.polls = @ + 1]
             ELSE [exec EXCEPT !.pc = "failed", !.elapsed = elapsed,
                               !.error = "deadline"]
  /\ UNCHANGED <<walletVars, config, bots, rec, bund, state, volumeBot, trig, budget, obsVars>>

\* generateVolumeWallets settles; fundVolumeWallets takes its funding wallets
\* and requests the first transfer, which throws when there is no funding
\* wallet to take (the configurations explored ask for at least one volume
\* wallet)
ExecVolumeGenerated ==
  /\ exec.pc = "generateVolumeWallets"
  /\ \/ /\ ExecFails
        /\ UNCHANGED <<walletVars, state, heap>>
     \/ LET wallets == generateVolumeWallets(config.volumeWalletCount, Len(fundingWallets)) IN
        /\ volumeWallets' = wallets
        /\ heap' = [heap EXCEPT !.volume = @ + 1]
        /\ state' = [state EXCEPT !.volumeWallets = wallets]
        /\ LET e == [exec EXCEPT !.fundingWallets = FundingSubsetOf(state.fundingWallets)] IN
           exec' = IF Len(e.fundingWallets) = 0
                   THEN [e EXCEPT !.pc = "failed", !.error = "rejected"]
                   ELSE TransferTo(e, wallets, 1)
        /\ UNCHANGED fundingWallets
  /\ UNCHANGED <<config, bots, rec, bund, volumeBot, trig, budget, reader>>

\* transferMon to volume wallet i settles
ExecTransferSettles ==
  /\ exec.pc = "transferMon"
  /\ \/ ExecFails
     \/ exec' = [exec EXCEPT !.pc = "fundDelay"]
  /\ UNCHANGED <<walletVars, config, bots, rec, bund, state, volumeBot, trig, budget, obsVars>>

\* the 500 ms delay elapses: the next volume wallet is funded, or phase 4
\* constructs the VolumeBot and starts it, and execute returns
ExecFundDelayElapses ==
  /\ exec.pc = "fundDelay"
  /\ IF exec.i < Len(state.volumeWallets)
     THEN /\ exec' = TransferTo(exec, state.volumeWallets, exec.i + 1)
          /\ UNCHANGED <<bots, volumeBot>>
     ELSE IF Falsy(state.tokenAddress)
     THEN /\ ExecFails
          /\ UNCHANGED <<bots, volumeBot>>
     ELSE /\ UnusedBots # {}
          /\ LET b == NextBotId IN
             /\ volumeBot' = b
             /\ \E r \in IntervalDraws :
                  bots' = [bots EXCEPT ![b] = StartBot(NewVolumeBot(state.tokenAddress), 1, r)]
             /\ exec' = IF Len(getVolumeWallets) = 0
                        THEN [exec EXCEPT !.pc = "failed", !.error = "rejected"]
                        ELSE [exec EXCEPT !.pc = "done"]
  /\ UNCHANGED <<walletVars, config, rec, bund, state, trig, budget, obsVars>>

\* if (this.volumeBot) await this.volumeBot.stop()
StopVolumeBot(bs) ==
  IF volumeBot # 0 THEN [bs EXCEPT ![volumeBot] = StopBot(@)] ELSE bs

\* triggerRecovery(expectedDemand) is called: the phase is set; without a
\* token address it throws; the scheduler is stopped; the RecoveryManager is
\* constructed (it throws without a recovery address) and the sweep begins
TriggerRecovery ==
  /\ trig.pc # "executeRecovery"
  /\ budget.triggerRecovery > 0
  /\ budget' = [budget EXCEPT !.triggerRecovery = @ - 1]
  /\ state' = [state EXCEPT !.phase = "recovery"]
  /\ LET t == [trig EXCEPT !.calledIn = state.phase,
                            !.schedulerRunning = volumeBot # 0 /\ bots[volumeBot].isRunning] IN
     IF Falsy(state.tokenAddress)
     THEN /\ trig' = [t EXCEPT !.pc = "threw"]
          /\ UNCHANGED <<bots, rec>>
     ELSE /\ bots' = StopVolumeBot(bots)
          /\ IF config.recoveryWalletAddress = ""
             THEN /\ trig' = [t EXCEPT !.pc = "threw"]
                  /\ UNCHANGED rec
             ELSE /\ trig' = [t EXCEPT !.pc = "executeRecovery"]
                  /\ rec' = StartRecovery(state.tokenAddress)
  /\ UNCHANGED <<walletVars, config, bund, volumeBot, exec, obsVars>>

\* executeRecovery returned: the result is logged and dropped, and the
\* phase completed
TriggerReturns ==
  /\ trig.pc = "executeRecovery"
  /\ rec.pc = "done"
  /\ state' = [state EXCEPT !.phase = "completed"]
  /\ trig' = [trig EXCEPT !.pc = "returned"]
  /\ rec' = IdleRec
  /\ UNCHANGED <<walletVars, config, bots, bund, volumeBot, exec, budget, obsVars>>

\* orchestrator.stop()
Stop ==
  /\ bots' = StopVolumeBot(bots)
  /\ UNCHANGED exceptBots

\* getState(): return { ...this.state }.  The fields of the state are copied
\* into a new object; the list fields of the copy refer to the arrays the
\* state's fields refer to.
GetState ==
  /\ reader' = [held |-> TRUE, snapshot |-> state,
                funding |-> heap.funding, volume |-> heap.volume]
  /\ UNCHANGED <<walletVars, config, bots, rec, bund, orchVars, budget, heap>>

\* array.pop()
Pop(s) == SubSeq(s, 1, Len(s) - 1)

\* the holder of the snapshot assigns one of its fields
ReaderAssignsPhase ==
  /\ reader.held /\ reader.snapshot.phase # "idle"
  /\ reader' = [reader EXCEPT !.snapshot.phase = "idle"]
  /\ UNCHANGED <<walletVars, config, bots, rec, bund, orchVars, budget, heap>>

\* the holder of the snapshot removes the last wallet of its fundingWallets
\* list: the array changes for every object that refers to it, the state
\* and the WalletManager included when it is still their array
ReaderPopsFunding ==
  /\ reader.held /\ Len(reader.snapshot.fundingWallets) > 0
  /\ reader' = [reader EXCEPT !.snapshot.fundingWallets = Pop(@)]
  /\ IF reader.funding = heap.funding
     THEN /\ state' = [state EXCEPT !.fundingWallets = Pop(@)]
          /\ fundingWallets' = Pop(fundingWallets)
     ELSE UNCHANGED <<state, fundingWallets>>
  /\ UNCHANGED <<volumeWallets, config, bots, rec, bund, volumeBot, exec, trig, budget, heap>>

\* the same for its volumeWallets list
ReaderPopsVolume ==
  /\ reader.held /\ Len(reader.snapshot.volumeWallets) > 0
  /\ reader' = [reader EXCEPT !.snapshot.volumeWallets = Pop(@)]
  /\ IF reader.volume = heap.volume
     THEN /\ state' = [state EXCEPT !.volumeWallets = Pop(@)]
          /\ volumeWallets' = Pop(volumeWallets)
     ELSE UNCHANGED <<state, volumeWallets>>
  /\ UNCHANGED <<fundingWallets, config, bots, rec, bund, volumeBot, exec, trig, budget, heap>>

----------------------------------------------------------------------------
vars == <<fundingWallets, volumeWallets, bots, config, rec, bund, state,
          volumeBot, exec, trig, budget, obsVars>>

\* config.volume.minTradeIntervalMs (MIN_TRADE_INTERVAL_MS, default) and
\* config.volume.tradeAmountMinMon (TRADE_AMOUNT_MIN_MON, default)
MinTradeIntervalMs == 5000
TradeAmountMinMon == 10

\* the configurations explored: with and without a recovery address and a
\* bundler endpoint, the wallet counts at the bounds of the model, the trade
\* intervals and amounts fixed at their default minimum
Configs == [recoveryWalletAddress : {"", "0xR"}, bundlerRpcUrl : {"", "rpc"},
            walletCount : {NumFunding}, volumeWalletCount : {NumVolume},
            targetMon : {TargetMon},
            minTradeIntervalMs : {MinTradeIntervalMs},
            maxTradeIntervalMs : {MinTradeIntervalMs},
            tradeAmountMinMon : {TradeAmountMinMon},
            tradeAmountMaxMon : {TradeAmountMinMon}]

NoBudget == [execute |-> 0, triggerRecovery |-> 0, trades |-> 0]

\* A run makes one execute call and up to MaxRecoveryCalls triggerRecovery
\* calls, or up to MaxExecCalls execute calls and no triggerRecovery call.
Budgets ==
  {[execute |-> 1, triggerRecovery |-> MaxRecoveryCalls, trades |-> MaxOrchTrades],
   [execute |-> MaxExecCalls, triggerRecovery |-> 0, trades |-> MaxOrchTrades]}

(* The orchestrator with everything it drives, under any interleaving of   *)
(* execute, triggerRecovery and stop calls with the tasks in progress.     *)
Init ==
  /\ fundingWallets = <<>>
  /\ volumeWallets = <<>>
  /\ bots = [b \in BotIds |-> NoBot]
  /\ config \in Configs
  /\ rec = IdleRec
  /\ bund = IdleBund
  /\ state = InitialState
  /\ volumeBot = 0
  /\ exec = IdleExec
  /\ trig = IdleTrig
  /\ heap = InitialHeap
  /\ reader = NoReader
  /\ budget \in Budgets

Next ==
  \/ Execute
  \/ ExecFundingGenerated
  \/ ExecBundleThrew
  \/ ExecCreateReturned
  \/ ExecBuysReturned
  \/ ExecPollSettles
  \/ ExecPollDelayElapses
  \/ ExecVolumeGenerated
  \/ ExecTransferSettles
  \/ ExecFundDelayElapses
  \/ TriggerRecovery
  \/ TriggerReturns
  \/ Stop
  \/ BundStep
  \/ RecStep
  \/ \E b \in BotIds : BotStep(b)

Spec == Init /\ [][Next]_vars

(* The execute calls alone: the four phases with the bundler they drive,   *)
(* no recovery and no timer firing.                                        *)
InitExecute ==
  /\ fundingWallets = <<>>
  /\ volumeWallets = <<>>
  /\ bots = [b \in BotIds |-> NoBot]
  /\ config \in Configs
  /\ rec = IdleRec
  /\ bund = IdleBund
  /\ state = InitialState
  /\ volumeBot = 0
  /\ exec = IdleExec
  /\ trig = IdleTrig
  /\ heap = InitialHeap
  /\ reader = NoReader
  /\ budget = [NoBudget EXCEPT !.execute = MaxExecCalls]

NextExecute ==
  \/ Execute
  \/ ExecFundingGenerated
  \/ ExecBundleThrew
  \/ ExecCreateReturned
  \/ ExecBuysReturned
  \/ ExecPollSettles
  \/ ExecPollDelayElapses
  \/ ExecVolumeGenerated
  \/ ExecTransferSettles
  \/ ExecFundDelayElapses
  \/ BundStep

SpecExecute == InitExecute /\ [][NextExecute]_vars

(* The execute calls with a reader that takes snapshots of the state and   *)
(* writes to the snapshot it holds.                                        *)
NextSnapshot ==
  \/ NextExecute
  \/ GetState
  \/ ReaderAssignsPhase
  \/ ReaderPopsFunding
  \/ ReaderPopsVolume

SpecSnapshot == InitExecute /\ [][NextSnapshot]_vars

(* One execute call over funding pools smaller and larger than the subset  *)
(* that funds the volume wallets, and over volume pools smaller and larger *)
(* than the funding pool.                                                  *)
VolumeFundingConfigs ==
  [recoveryWalletAddress : {"0xR"}, bundlerRpcUrl : {"", "rpc"},
   walletCount : {1, 3, 12}, volumeWalletCount : {1, 4, 25},
   targetMon : {TargetMon},
   minTradeIntervalMs : {MinTradeIntervalMs},
   maxTradeIntervalMs : {MinTradeIntervalMs},
   tradeAmountMinMon : {TradeAmountMinMon},
   tradeAmountMaxMon : {TradeAmountMinMon}]

InitVolumeFunding ==
  /\ fundingWallets = <<>>
  /\ volumeWallets = <<>>
  /\ bots = [b \in BotIds |-> NoBot]
  /\ config \in VolumeFundingConfigs
  /\ rec = IdleRec
  /\ bund = IdleBund
  /\ state = InitialState
  /\ volumeBot = 0
  /\ exec = IdleExec
  /\ trig = IdleTrig
  /\ heap = InitialHeap
  /\ reader = NoReader
  /\ budget = [NoBudget EXCEPT !.execute = 1]

SpecVolumeFunding == InitVolumeFunding /\ [][NextExecute]_vars

(* One execute call over funding pools of several sizes, the default size  *)
(* included, and over two targets.                                         *)

\* config.bondingCurve.walletCount (FUNDING_WALLET_COUNT, default)
WalletCountDefault == 100

\* config.bondingCurve.minWallets and maxWallets (MIN_FUNDING_WALLETS,
\* MAX_FUNDING_WALLETS, defaults): declared, read by no code
MinWallets == 100
MaxWallets == 150

FundingConfigs ==
  [recoveryWalletAddress : {"0xR"}, bundlerRpcUrl : {"", "rpc"},
   walletCount : {1, 2, 3, WalletCountDefault}, volumeWalletCount : {NumVolume},
   targetMon : {TargetMon, 1000},
   minTradeIntervalMs : {MinTradeIntervalMs},
   maxTradeIntervalMs : {MinTradeIntervalMs},
   tradeAmountMinMon : {TradeAmountMinMon},
   tradeAmountMaxMon : {TradeAmountMinMon}]

InitFunding ==
  /\ fundingWallets = <<>>
  /\ volumeWallets = <<>>
  /\ bots = [b \in BotIds |-> NoBot]
  /\ config \in FundingConfigs
  /\ rec = IdleRec
  /\ bund = IdleBund
  /\ state = InitialState
  /\ volumeBot = 0
  /\ exec = IdleExec
  /\ trig = IdleTrig
  /\ heap = InitialHeap
  /\ reader = NoReader
  /\ budget = [NoBudget EXCEPT !.execute = 1]

SpecFunding == InitFunding /\ [][NextExecute]_vars

(* The WalletManager alone, under any sequence of generation calls.        *)

\* wallets one generation call may be asked for
MaxGenerate == 6

InitWallets ==
  /\ fundingWallets = <<>>
  /\ volumeWallets = <<>>
  /\ bots = [b \in BotIds |-> NoBot]
  /\ config \in Configs
  /\ rec = IdleRec
  /\ bund = IdleBund
  /\ state = InitialState
  /\ volumeBot = 0
  /\ exec = IdleExec
  /\ trig = IdleTrig
  /\ heap = InitialHeap
  /\ reader = NoReader
  /\ budget = NoBudget

\* walletManager.generateFundingWallets(count)
GenerateFunding ==
  /\ \E count \in 0..MaxGenerate : fundingWallets' = generateFundingWallets(count)
  /\ UNCHANGED <<volumeWallets, bots, config, rec, bund, orchVars, budget, obsVars>>

\* walletManager.generateVolumeWallets(count)
GenerateVolume ==
  /\ \E count \in 0..MaxGenerate :
       volumeWallets' = generateVolumeWallets(count, Len(fundingWallets))
  /\ UNCHANGED <<fundingWallets, bots, config, rec, bund, orchVars, budget, obsVars>>

NextWallets == GenerateFunding \/ GenerateVolume

SpecWallets == InitWallets /\ [][NextWallets]_vars

(* The VolumeBot alone, driven by any sequence of start and stop calls.    *)
InitBot ==
  /\ fundingWallets = generateFundingWallets(NumFunding)
  /\ \E n \in 0..NumVolume : volumeWallets = generateVolumeWallets(n, NumFunding)
  /\ bots = [b \in BotIds |-> IF b = 1 THEN NewVolumeBot("0xT") ELSE NoBot]
  /\ config \in Configs
  /\ rec = IdleRec
  /\ bund = IdleBund
  /\ state = InitialState
  /\ volumeBot = 0
  /\ exec = IdleExec
  /\ trig = IdleTrig
  /\ heap = InitialHeap
  /\ reader = NoReader
  /\ budget = [NoBudget EXCEPT !.trades = MaxTrades]

NextBot == BotStart(1) \/ BotStop(1) \/ BotStep(1)

SpecBot == InitBot /\ [][NextBot]_vars

(* The VolumeBot started once and left running, over configurations whose  *)
(* interval and amount bounds are equal, apart, or the wrong way round.    *)
TradeConfigs ==
  [recoveryWalletAddress : {"0xR"}, bundlerRpcUrl : {""},
   walletCount : {NumFunding}, volumeWalletCount : {NumVolume},
   targetMon : {TargetMon},
   minTradeIntervalMs : {1, 3}, maxTradeIntervalMs : {1, 3},
   tradeAmountMinMon : {1, 3}, tradeAmountMaxMon : {1, 3}]

InitTrades ==
  /\ fundingWallets = generateFundingWallets(NumFunding)
  /\ volumeWallets = generateVolumeWallets(NumVolume, NumFunding)
  /\ bots = [b \in BotIds |-> IF b = 1 THEN NewVolumeBot("0xT") ELSE NoBot]
  /\ config \in TradeConfigs
  /\ rec = IdleRec
  /\ bund = IdleBund
  /\ state = InitialState
  /\ volumeBot = 0
  /\ exec = IdleExec
  /\ trig = IdleTrig
  /\ heap = InitialHeap
  /\ reader = NoReader
  /\ budget = [NoBudget EXCEPT !.trades = MaxTrades]

NextTrades == BotStart(1) \/ BotStep(1)

SpecTrades == InitTrades /\ [][NextTrades]_vars

(* executeRecovery alone, over any pools the WalletManager may hold.       *)
InitRecovery ==
  /\ \E nf \in 0..NumFunding, nv \in 0..NumVolume :
       /\ fundingWallets = generateFundingWallets(nf)
       /\ volumeWallets = generateVolumeWallets(nv, nf)
  /\ bots = [b \in BotIds |-> NoBot]
  /\ config \in {c \in Configs : c.recoveryWalletAddress # ""}
  /\ rec = IdleRec
  /\ bund = IdleBund
  /\ state = InitialState
  /\ volumeBot = 0
  /\ exec = IdleExec
  /\ trig = IdleTrig
  /\ heap = InitialHeap
  /\ reader = NoReader
  /\ budget = NoBudget

ExecuteRecovery ==
  /\ rec.pc = "idle"
  /\ rec' = StartRecovery("0xT")
  /\ UNCHANGED exceptRec

NextRecovery == ExecuteRecovery \/ RecStep

SpecRecovery == InitRecovery /\ [][NextRecovery]_vars

\* every awaited call settles, and the delay elapses
SpecRecoveryLive == SpecRecovery /\ WF_vars(NextRecovery)

(* The TransactionBundler alone: one bundling call over any wallets.       *)
MaxOps == 3

InitBundler ==
  /\ fundingWallets = generateFundingWallets(MaxOps)
  /\ volumeWallets = <<>>
  /\ bots = [b \in BotIds |-> NoBot]
  /\ config \in Configs
  /\ rec = IdleRec
  /\ bund = IdleBund
  /\ state = InitialState
  /\ volumeBot = 0
  /\ exec = IdleExec
  /\ trig = IdleTrig
  /\ heap = InitialHeap
  /\ reader = NoReader
  /\ budget = NoBudget

BundlerCall ==
  /\ bund.pc = "idle"
  /\ \E amount \in BuyAmounts :
       \/ bund' = bundleTokenCreationAndBuy(fundingWallets[1], amount)
       \/ \E n \in 0..MaxOps, tokenAddress \in TokenAddresses :
            bund' = bundleMultipleBuys(SubSeq(fundingWallets, 1, n), tokenAddress,
                                       [k \in 1..n |-> amount])
  /\ UNCHANGED exceptBund

NextBundler == BundlerCall \/ BundStep

SpecBundler == InitBundler /\ [][NextBundler]_vars

----------------------------------------------------------------------------
(* What the claims read off the state                                      *)

\* the wallets (by address) from which each component has a transaction
\* submitted and not yet settled
OrchestratorInFlight ==
  (IF bund.pc \in {"sendTransaction", "wait"}
   THEN {Signer(bund, bund.i).address} ELSE {})
  \cup (IF exec.pc = "transferMon"
        THEN {FundingSource(exec.fundingWallets, exec.i).address} ELSE {})

SchedulerInFlight ==
  {bots[p[1]].loops[p[2]].wallet.address :
     p \in {q \in BotIds \X LoopIds :
              bots[q[1]].loops[q[2]].st \in {"buyToken", "sellToken"}}}

RecoveryInFlight ==
  IF rec.pc \in {"sellToken", "transferMon"}
  THEN {rec.allWallets[rec.i].address} ELSE {}

SchedulerTrades == {<<b, l>> \in BotIds \X LoopIds : bots[b].loops[l].st \in TradeStates}

PhaseRank(p) ==
  CASE p = "idle" -> 0 [] p = "funding" -> 1 [] p = "bonding" -> 2
    [] p = "volume" -> 3 [] p = "recovery" -> 4 [] p = "completed" -> 5

\* the wallets of the sweep that have been dealt with
WalletsFinished == IF rec.pc \in {"delay", "done"} THEN rec.i ELSE rec.i - 1

----------------------------------------------------------------------------
(* Claims                                                                  *)

\* C1: when triggerRecovery is called while the Volume Scheduler is running,
\* no scheduler trade is in progress at any moment of the sweep (the sweep
\* reads no balance and submits nothing before the trade in flight ended).
C1_NoTradeDuringSweep ==
  (SweepInProgress /\ trig.schedulerRunning) => SchedulerTrades = {}

\* C2: the phase only moves forward one step in the order idle, funding,
\* bonding, volume, recovery, completed, or skips into recovery from funding
\* or bonding; it never moves back, and never enters recovery from idle or
\* completed.
C2_PhaseOrder ==
  [][\/ state'.phase = state.phase
     \/ PhaseRank(state'.phase) = PhaseRank(state.phase) + 1
     \/ state'.phase = "recovery" /\ state.phase \in {"funding", "bonding", "volume"}]_vars

\* C3: no two different components (orchestrator funding, Volume Scheduler,
\* Recovery Sweep) have transactions in flight from the same wallet.
C3_OneSubmitterPerWallet ==
  /\ OrchestratorInFlight \cap SchedulerInFlight = {}
  /\ OrchestratorInFlight \cap RecoveryInFlight = {}
  /\ SchedulerInFlight \cap RecoveryInFlight = {}

\* C4: for any sequence of VolumeBot start and stop calls, timer firings and
\* trade completions, at most one trade is in progress and at most one trade
\* timer is pending.
C4_NoOverlappingTrades ==
  \A b \in BotIds :
    /\ Cardinality(TradesInProgress(bots[b])) <= 1
    /\ Cardinality(PendingTimers(bots[b])) <= 1

\* C5: a triggerRecovery call made in funding, bonding or volume has, once it
\* is over, left the phase at completed and never at recovery.
C5_RecoveryCompletes ==
  (trig.pc \in {"returned", "threw"} /\ trig.calledIn \in {"funding", "bonding", "volume"})
    => state.phase # "recovery"

\* C6: no buy is built or submitted against an unresolved (empty) token
\* address.
C6_NoBuyWithoutTokenAddress ==
  /\ bund.op = "multipleBuys" => ~Falsy(bund.tokenAddress)
  /\ \A k \in 1..Len(bund.txs) :
       bund.txs[k].kind = "buyToken" => ~Falsy(bund.txs[k].token)

\* C7: in sequential mode, when operation k fails the bundler returns a
\* result with exactly the k-1 entries of the operations that succeeded.
C7_PartialResultReturned ==
  (bund.mode = "sequential" /\ bund.failedAt > 0)
    => (bund.pc = "returned" /\ Len(bund.transactions) = bund.failedAt - 1)

C9_SweepVisitsEveryWallet ==
  /\ <>(rec.pc = "done")
  /\ [](rec.pc = "done" =>
          /\ rec.visited = fundingWallets \o volumeWallets
          /\ \A j, k \in 1..Len(rec.visited) :
               j # k => rec.visited[j].address # rec.visited[k].address
          /\ \A k \in 1..Len(rec.visited) :
               rec.visited[k].type \in {"funding", "volume"})

\* the sweep is over, wallets threw, and every wallet of both pools was
\* visited
C9_Witness ==
  /\ rec.pc = "done" /\ rec.threw > 1
  /\ Len(rec.visited) = NumFunding + NumVolume

\* C10: while the scheduler is running, the end of every trade attempt,
\* whether it pushed an order, was skipped or threw, arms the timer of the
\* next trade.
C10_AlwaysReschedules ==
  [][\A b \in BotIds, l \in LoopIds :
       (/\ bots[b].loops[l].st \in TradeStates
        /\ bots'[b].loops[l].st \notin TradeStates
        /\ bots[b].isRunning)
       => /\ bots'[b].loops[l].st = "timer"
          /\ bots'[b].tradeInterval = l
          /\ bots'[b].isRunning]_vars

\* a trade attempt threw and the timer of the next trade is pending
C10_Witness ==
  \E l \in LoopIds :
    /\ bots[1].isRunning
    /\ bots[1].loops[l].st = "timer"
    /\ bots[1].loops[l].last = "threw"

\* C11: once VolumeBot.stop has been called and start has not been called
\* again, no trade timer is pending (so no new trade is begun), and a trade
\* that was in flight ends without scheduling a successor.
C11_StopCancelsTimer ==
  \A b \in BotIds : ~bots[b].isRunning => PendingTimers(bots[b]) = {}

\* C12: whenever the phase is volume, bondingCurveComplete is true: volume
\* is entered only by the step in which a status poll observed isComplete.
C12_VolumeOnlyAfterCompletion ==
  /\ [](state.phase = "volume" => state.bondingCurveComplete)
  /\ [][(state'.phase = "volume" /\ state.phase # "volume")
         => (exec.pc = "getBondingCurveStatus" /\ exec'.completeAt = exec.polls)]_vars

\* the volume phase was entered after a poll observed completion
C12_Witness ==
  /\ state.phase = "volume" /\ state.bondingCurveComplete
  /\ exec.pc = "done" /\ volumeBot # 0

\* C13: when the k-th poll is the first to return isComplete, the loop has
\* made exactly k polls, the phase becomes volume in that step and in no
\* other step of the call, and the status is not polled again.
C13_ExactlyKPolls ==
  /\ [](exec.completeAt > 0 =>
          /\ exec.polls = exec.completeAt
          /\ exec.pc \notin {"getBondingCurveStatus", "pollDelay"}
          /\ state.bondingCurveComplete)
  /\ [][(exec.pc = "getBondingCurveStatus" /\ exec'.completeAt > 0)
         => (state'.phase = "volume" /\ exec'.completeAt = exec.polls)]_vars
  /\ [][(exec.completeAt > 0 /\ exec'.completeAt > 0)
         => (state'.phase = "volume" => state.phase = "volume")]_vars

\* the spec's case: three polls returned false and the fourth true
C13_Witness ==
  exec.completeAt = 4 /\ exec.polls = 4 /\ state.phase = "volume" /\ exec.pc = "done"

\* C14: the deadline error is raised once the elapsed time is at least the
\* maximum wait and never while it is below; the loop polls only below the
\* maximum, and a call that ran into the deadline does not enter volume.
C14_DeadlineNotBefore ==
  /\ exec.error = "deadline" =>
       /\ exec.elapsed >= MaxWaitTime
       /\ exec.pc = "failed" /\ exec.completeAt = 0
       /\ state.phase # "volume"
  /\ exec.elapsed >= MaxWaitTime => exec.error = "deadline"
  /\ exec.pc \in {"getBondingCurveStatus", "pollDelay"} =>
       /\ exec.elapsed < MaxWaitTime
       /\ exec.polls = (exec.elapsed \div PollInterval) + 1

\* the status never was complete and the deadline error ended the call
C14_Witness ==
  /\ exec.error = "deadline" /\ exec.pc = "failed"
  /\ exec.polls = MaxWaitTime \div PollInterval
  /\ state.phase = "bonding"

\* C15: whenever bundleTokenCreationAndBuy returns without error, the token
\* creation and then the first buy have both been submitted, each signed by
\* the first funding wallet, with or without a bundling endpoint.
C15_CreateAndFirstBuySubmitted ==
  (bund.op = "createAndBuy" /\ bund.pc = "returned") =>
    /\ Len(bund.sent) = 2
    /\ bund.sent[1].tx.kind = "createToken"
    /\ bund.sent[2].tx.kind = "buyToken"
    /\ \A k \in 1..2 : bund.sent[k].signer = bund.wallets[1]

\* C16: a bundling call that returns gives a result with one entry for each
\* operation submitted to the chain, in submission order, and with as many
\* signatures as transactions.
C16_ResultMatchesSubmitted ==
  bund.pc = "returned" =>
    /\ Len(bund.transactions) = Len(bund.sent)
    /\ Len(bund.signatures) = Len(bund.transactions)
    /\ \A k \in 1..Len(bund.sent) :
         k <= Len(bund.transactions) => bund.transactions[k].tx = bund.sent[k].tx

\* the step of phase 2 that executes this.state.tokenAddress = tokenAddress
AssignsTokenAddress ==
  exec.pc = "bundleTokenCreationAndBuy" /\ exec'.pc = "bundleMultipleBuys"

\* C17: BotState.tokenAddress is write-once: once it holds a value, no step
\* assigns it again or changes it, a further execute call included.
C17_TokenAddressWriteOnce ==
  [][state.tokenAddress # "undefined"
       => (state'.tokenAddress = state.tokenAddress /\ ~AssignsTokenAddress)]_vars

\* C18: for the MON balance b read for a wallet and the gas reserve r, the
\* transfer amount is b - r when b > r and 0 otherwise, never negative, and
\* a transfer is attempted only when the amount is positive.
C18_TransferAmountClamped ==
  /\ rec.pc = "transferMon" => rec.monBalance >= 0
  /\ rec.monBalance >= 0 =>
       /\ rec.transferAmount >= 0
       /\ rec.monBalance > GasReserve => rec.transferAmount = rec.monBalance - GasReserve
       /\ rec.monBalance <= GasReserve => rec.transferAmount = 0
       /\ rec.pc = "transferMon" => rec.transferAmount > 0
       /\ rec.transferAmount = 0 => (rec.pc # "transferMon" /\ rec.transferred = 0)

\* the spec's case: a balance of 0.0005 MON under the reserve of 0.001 MON
\* gave the amount 0 and the wallet was left without a transfer
C18_Witness ==
  /\ rec.monBalance = 1 /\ GasReserve = 2
  /\ rec.transferAmount = 0 /\ rec.transferred = 0
  /\ rec.pc = "delay"

\* the spec's scenario: the default target over 100 funding wallets, once
\* phase 2 has computed both amounts
DefaultFundingComputed ==
  /\ config.targetMon = TargetMon
  /\ Len(state.fundingWallets) = WalletCountDefault
  /\ exec.pc = "bundleMultipleBuys"

\* C19 as claimed: with the target 1,296,000 MON and 100 funding wallets the
\* first wallet's amount is 12,960 MON and the amount of each of the
\* remaining 99 wallets is 13,090.9... MON.
C19_AmountsAsClaimed ==
  DefaultFundingComputed =>
    /\ exec.monPerWallet = 12960000
    /\ exec.amountPerRemainingWallet \div 100 = 130909

\* C19 as amended: with the target 1,296,000 MON and 100 funding wallets the
\* first wallet's amount is 12,960 MON and the amount of each of the
\* remaining 99 wallets, (1,296,000 - 12,960) / 99, is 12,960 MON as well;
\* whenever the wallet count divides the target, the remaining wallets are
\* each given the first wallet's amount.
C19_AmountsPerWallet ==
  /\ DefaultFundingComputed =>
       /\ exec.monPerWallet = 12960000
       /\ exec.amountPerRemainingWallet = 12960000
       /\ bund.op = "multipleBuys" =>
            /\ Len(bund.amounts) = 99
            /\ \A k \in 1..Len(bund.amounts) : bund.amounts[k] = 12960000
  /\ (bund.op = "createAndBuy" /\ exec.pc = "bundleTokenCreationAndBuy") =>
       bund.amounts = <<exec.monPerWallet>>
  /\ (/\ exec.pc = "bundleMultipleBuys"
      /\ Len(state.fundingWallets) > 1
      /\ (config.targetMon * 1000) % Len(state.fundingWallets) = 0)
     => exec.amountPerRemainingWallet = exec.monPerWallet

\* the scenario happened: the buys of the 99 remaining wallets were requested
C19_Witness ==
  /\ DefaultFundingComputed
  /\ bund.op = "multipleBuys" /\ Len(bund.wallets) = 99
  /\ bund.pc = "sendTransaction" /\ bund.txs[1].value = 12960000

\* the account segment of a namespace's derivation path
Account(type) == IF type = "funding" THEN 0 ELSE 1

\* the wallet derived anew from the seed, the namespace and the recorded index
\* of wallet w
Rederive(w) == HDNode(Account(w.type), w.index)

\* C20: for every wallet the WalletManager has produced, deriving again from
\* the same seed with the wallet's namespace and its recorded index gives
\* that wallet's address.
C20_RederivationReproduces ==
  \A w \in Range(getAllWallets) : Rederive(w) = w.address

\* C21: whatever the funding and volume counts, no wallet of the funding
\* namespace shares a derivation path (hence an address) with a wallet of the
\* volume namespace, and within a namespace all paths are distinct.
C21_NamespacesDisjoint ==
  /\ \A f \in Range(fundingWallets), v \in Range(volumeWallets) : f.address # v.address
  /\ \A j, k \in 1..Len(fundingWallets) :
       j # k => fundingWallets[j].address # fundingWallets[k].address
  /\ \A j, k \in 1..Len(volumeWallets) :
       j # k => volumeWallets[j].address # volumeWallets[k].address

\* both namespaces hold several wallets, of different counts
C21_Witness ==
  /\ Len(fundingWallets) >= 2 /\ Len(volumeWallets) >= 2
  /\ Len(fundingWallets) # Len(volumeWallets)

\* C22: once phase 1 has derived the funding wallets, their number lies
\* within [minWallets, maxWallets], whatever count is configured.
C22_FundingCountWithinBounds ==
  state.phase \in {"bonding", "volume"} =>
    /\ MinWallets <= Len(state.fundingWallets)
    /\ Len(state.fundingWallets) <= MaxWallets

\* C23: getState returns a copy: no step changes both the orchestrator's
\* state and a snapshot returned earlier, so a later phase transition leaves
\* the snapshot as it was and nothing its holder does to it, its wallet lists
\* included, changes the state.
C23_SnapshotIsolated ==
  [][reader.held => (reader'.snapshot = reader.snapshot \/ state' = state)]_vars

\* C24: the counters of BotState reflect what happened: once the funding of
\* the bonding curve is over, totalMonDeposited is the MON of the buys the
\* chain confirmed, and volumeGenerated is the sum of the amounts of the
\* trades the scheduler recorded.
C24_CountersReflectOutcome ==
  /\ exec.pc \notin {"idle", "generateFundingWallets", "bundleTokenCreationAndBuy",
                     "bundleMultipleBuys"}
       => state.totalMonDeposited * 1000 = exec.confirmedMon
  /\ volumeBot # 0
       => state.volumeGenerated * MonUnit = getTotalVolume(bots[volumeBot])

\* the wallets the scheduler has traded from or is trading from
TradingWallets(bot) ==
  {bot.loops[l].wallet : l \in TradesInProgress(bot)}
    \cup {bot.tradeHistory[k].wallet : k \in 1..Len(bot.tradeHistory)}

\* C25: every trade of the Volume Scheduler, in progress or recorded, is made
\* from a wallet of the volume pool captured at start, and never from a
\* funding wallet.
C25_TradesFromVolumePool ==
  \A b \in BotIds :
    /\ \A l \in PendingTimers(bots[b]) : bots[b].loops[l].wallets = volumeWallets
    /\ \A w \in TradingWallets(bots[b]) :
         /\ w \in Range(volumeWallets)
         /\ w.type = "volume"
         /\ \A f \in Range(fundingWallets) : f.address # w.address

\* a sell is being submitted after an earlier trade was recorded
C25_Witness ==
  /\ Len(bots[1].tradeHistory) > 0
  /\ \E l \in LoopIds : bots[1].loops[l].st = "sellToken"

\* C26: in sequential mode bundleMultipleBuys submits the buys in the order
\* of the wallets listed, one per wallet and each at most once, every buy
\* signed by its own wallet, and submits a buy only when all buys before it
\* are confirmed; a confirmed buy is never submitted again.
C26_SequentialInOrder ==
  (bund.op = "multipleBuys" /\ bund.mode = "sequential") =>
    /\ Len(bund.sent) <= Len(bund.wallets)
    /\ \A k \in 1..Len(bund.sent) :
         /\ bund.sent[k].tx = bund.txs[k]
         /\ bund.sent[k].tx.wallet = bund.wallets[k]
         /\ bund.sent[k].signer = bund.wallets[k]
    /\ \A j, k \in 1..Len(bund.sent) : j # k => bund.sent[j].tx # bund.sent[k].tx
    /\ bund.confirmed <= Len(bund.sent)
    /\ Len(bund.sent) <= bund.confirmed + 1
    /\ bund.pc = "sendTransaction" => bund.confirmed = Len(bund.sent)
    /\ bund.pc = "returned" => bund.confirmed = Len(bund.wallets)

\* every buy of a list of several wallets was submitted and confirmed
C26_Witness ==
  /\ bund.op = "multipleBuys" /\ bund.mode = "sequential" /\ bund.pc = "returned"
  /\ Len(bund.wallets) > 1 /\ bund.confirmed = Len(bund.wallets)

\* the states a trade attempt may move to from state st: its next await, or
\* its end (the next timer, or nothing once the bot was stopped)
TradeSuccessors(st) ==
  {st, "timer", "none"}
    \cup (CASE st = "getMonBalance" -> {"buyToken"}
            [] st = "getTokenBalance" -> {"getTokenPrice"}
            [] st = "getTokenPrice" -> {"sellToken"}
            [] OTHER -> {})

\* C27: the trade history only grows, by one TradeOrder at a time and at its
\* end; it holds one entry for each buyToken or sellToken call that resolved,
\* the entry of the trade that made it; a trade that is skipped or fails adds
\* none, and no trade attempt is begun again.
C27_HistoryAppendOnly ==
  /\ [](\A b \in BotIds : Len(bots[b].tradeHistory) = bots[b].submitted)
  /\ [][\A b \in BotIds :
          LET old == bots[b].tradeHistory
              new == bots'[b].tradeHistory
          IN /\ Len(new) \in {Len(old), Len(old) + 1}
             /\ SubSeq(new, 1, Len(old)) = old
             /\ Len(new) = Len(old) + 1 =>
                  \E l \in LoopIds :
                    /\ bots[b].loops[l].st \in {"buyToken", "sellToken"}
                    /\ bots'[b].loops[l].st \notin TradeStates
                    /\ bots'[b].submitted = bots[b].submitted + 1
                    /\ new[Len(new)].wallet = bots[b].loops[l].wallet
                    /\ new[Len(new)].amountMon = bots[b].loops[l].amountMon
                    /\ new[Len(new)].type =
                         (IF bots[b].loops[l].st = "buyToken" THEN "buy" ELSE "sell")
             /\ \A l \in LoopIds :
                  /\ bots[b].loops[l].st \in TradeStates
                       => bots'[b].loops[l].st \in TradeSuccessors(bots[b].loops[l].st)
                  /\ (/\ bots[b].loops[l].st \in
                           {"getMonBalance", "getTokenBalance", "getTokenPrice"}
                      /\ bots'[b].loops[l].st # bots[b].loops[l].st)
                       => new = old]_vars

\* of two trade attempts one was recorded and the other threw
C27_Witness ==
  /\ Len(bots[1].tradeHistory) = 1 /\ bots[1].submitted = 1
  /\ \E l \in LoopIds : bots[1].loops[l].st = "timer" /\ bots[1].loops[l].last = "threw"

\* C28: the token quantity passed to sellToken is the smaller of the amount
\* drawn divided by the price read and the token balance read just before;
\* it never exceeds that balance, and no sell is made from a zero balance.
C28_SellCappedAtBalance ==
  \A b \in BotIds, l \in LoopIds :
    LET t == bots[b].loops[l] IN
    t.st = "sellToken" =>
      /\ t.tokenBalance > 0
      /\ t.tokenPrice > 0
      /\ t.sold = Min(t.amountMon \div t.tokenPrice, t.tokenBalance)
      /\ t.sold <= t.tokenBalance

\* a sell of the whole balance, the amount drawn being worth more tokens than
\* the wallet holds
C28_Witness ==
  \E l \in LoopIds :
    /\ bots[1].loops[l].st = "sellToken"
    /\ bots[1].loops[l].tokensToSell > bots[1].loops[l].tokenBalance
    /\ bots[1].loops[l].sold = bots[1].loops[l].tokenBalance

\* C29: when the configured minimum is not above the maximum, every delay
\* drawn for a trade timer lies within [minTradeIntervalMs,
\* maxTradeIntervalMs] and the amount of every trade drawn or recorded lies
\* within [tradeAmountMinMon, tradeAmountMaxMon].
C29_DrawsWithinBounds ==
  \A b \in BotIds :
    /\ config.minTradeIntervalMs <= config.maxTradeIntervalMs =>
         \A l \in PendingTimers(bots[b]) :
           /\ config.minTradeIntervalMs <= bots[b].loops[l].interval
           /\ bots[b].loops[l].interval <= config.maxTradeIntervalMs
    /\ config.tradeAmountMinMon <= config.tradeAmountMaxMon =>
         /\ \A l \in TradesInProgress(bots[b]) :
              /\ config.tradeAmountMinMon * MonUnit <= bots[b].loops[l].amountMon
              /\ bots[b].loops[l].amountMon <= config.tradeAmountMaxMon * MonUnit
         /\ \A k \in 1..Len(bots[b].tradeHistory) :
              /\ config.tradeAmountMinMon * MonUnit <= bots[b].tradeHistory[k].amountMon
              /\ bots[b].tradeHistory[k].amountMon <= config.tradeAmountMaxMon * MonUnit

\* with bounds apart, an order of an amount above the minimum is recorded and
\* the pending timer's delay is above the minimum
C29_Witness ==
  /\ config.minTradeIntervalMs < config.maxTradeIntervalMs
  /\ config.tradeAmountMinMon < config.tradeAmountMaxMon
  /\ \E k \in 1..Len(bots[1].tradeHistory) :
       bots[1].tradeHistory[k].amountMon > config.tradeAmountMinMon * MonUnit
  /\ \E l \in PendingTimers(bots[1]) :
       bots[1].loops[l].interval > config.minTradeIntervalMs

\* the transfers of the call made from the funding wallet of address a
TransfersFrom(a) == {i \in 1..Len(exec.transfers) : exec.transfers[i].from = a}

\* C30: on volume entry the volume wallets are funded one after another in
\* their order, each by one transfer, wallet i (0-based) from funding wallet
\* i mod k with k = min(10, number of funding wallets): only the first k
\* funding wallets are used, and the numbers of transfers of any two of them
\* differ by at most one.
C30_VolumeFundingRotates ==
  LET k == Min(FundingSubset, Len(state.fundingWallets))
      sources == {state.fundingWallets[j].address : j \in 1..k}
      t == exec.transfers
  IN /\ Len(t) <= Len(state.volumeWallets)
     /\ \A i \in 1..Len(t) :
          /\ t[i].to = state.volumeWallets[i].address
          /\ t[i].from = state.fundingWallets[((i - 1) % k) + 1].address
          /\ t[i].from \in sources
     /\ exec.pc \in {"transferMon", "fundDelay"} => Len(t) = exec.i
     /\ exec.pc = "done" => Len(t) = Len(state.volumeWallets)
     /\ \A a, b \in sources :
          Cardinality(TransfersFrom(a)) <= Cardinality(TransfersFrom(b)) + 1

\* 25 volume wallets were funded from the first 10 of 12 funding wallets
C30_Witness ==
  /\ exec.pc = "done" /\ Len(exec.transfers) = 25
  /\ Len(state.fundingWallets) = 12
  /\ exec.transfers[25].from = state.fundingWallets[5].address

\* C31: once a triggerRecovery call has begun, no step makes a VolumeBot the
\* orchestrator's scheduler or sets one running; once the sweep has started,
\* no trade timer fires into a trade; and the phase completed is never left.
C31_NoVolumeAfterRecovery ==
  [][/\ trig.pc # "idle" =>
          /\ volumeBot' = volumeBot
          /\ \A b \in BotIds : bots'[b].isRunning => bots[b].isRunning
     /\ trig.pc \in {"executeRecovery", "returned"} =>
          \A b \in BotIds, l \in LoopIds :
            bots[b].loops[l].st = "timer" => bots'[b].loops[l].st \notin TradeStates
     /\ state.phase = "completed" => state'.phase = "completed"]_vars

\* the VolumeBots that are running
RunningBots == {b \in BotIds : bots[b].isRunning}

\* C32: at most one VolumeBot is running at any time, and when the
\* orchestrator's scheduler has been stopped no VolumeBot it ever started is
\* running or has a timer pending, however often execute was called.
C32_OneSchedulerRunning ==
  /\ Cardinality(RunningBots) <= 1
  /\ (volumeBot # 0 /\ ~bots[volumeBot].isRunning) =>
       \A b \in BotIds : ~bots[b].isRunning /\ PendingTimers(bots[b]) = {}

\* C33: a triggerRecovery call that throws before the sweep starts (no token
\* address, or no recovery address) leaves BotState as it was, the phase
\* included, and leaves every running VolumeBot running.
C33_FailedTriggerChangesNothing ==
  [][(trig.pc # "executeRecovery" /\ trig' # trig /\ trig'.pc = "threw") =>
       /\ state' = state
       /\ \A b \in BotIds : bots[b].isRunning => bots'[b].isRunning]_vars

====
